---- MODULE Spec2Model ----
(***************************************************************************)
(* Memory migration engine: backup, restore and listing of the relational  *)
(* short-term store (short_term.db), the flat long_term.json file and the  *)
(* vector collection "claude_memory" (tools/agents/scripts).               *)
(*                                                                         *)
(* Every file operation and every store call of backup() and restore() is  *)
(* one step, so the states between two steps of an operation are visible.  *)
(* Commands run one at a time: a command starts at pc = "idle", its return *)
(* value and output are in result at pc = "done", and the process then     *)
(* ends.  A store call that can fail fails or not; a failure the code      *)
(* does not catch ends the command with ret = "raised".                    *)
(*                                                                         *)
(* The relational commands (export, upgrade_schema, add_short_term,        *)
(* query_short_term) are one step each.  The scroll loop of export_qdrant  *)
(* is also modelled request by request against a store that serves a given *)
(* sequence of pages, and the entities table of the benchmark's test       *)
(* database insert by insert.  Each specification lets one part of the     *)
(* state vary: Spec the files, SpecVector the collection, SpecRelational   *)
(* the schema, SpecScroll the pages, SpecBenchmark the entities.           *)
(***************************************************************************)
EXTENDS Integers, Sequences, FiniteSets, TLC

VARIABLES
    clock,          \* seconds elapsed on the UTC clock
    short_term_db,  \* content of data/memory/short_term.db
    long_term_json, \* content of data/memory/long_term.json
    db_pre_restore, \* content of short_term.db.pre_restore
    json_pre_restore, \* content of long_term.json.pre_restore
    backups,        \* backup directory: backup id -> files of that directory
    collection,     \* the vector collection "claude_memory"
    qdrant,         \* self.qdrant is set in the running MemoryMigration
    model,          \* self.model is set in the running MemoryMigration
    pc,             \* position of the running command
    backup_id,      \* backup id of the running backup() / restore()
    result,         \* what the last command returned and printed
    startDb,        \* history: short_term.db when the last command began
    startJson,      \* history: long_term.json when the last command began
    collAtBackup,   \* history: backup id -> collection records when scrolled
    seen,           \* history: what restore() returned when it skipped the
                    \* vector step for want of a vector store
    upgrades,       \* history: upgrade_schema() calls completed in a row, the
                    \* last command being the last of them (counted up to 2)
    conn,           \* sqlite3 connections the process has opened, not closed
    test_db,        \* content of the benchmark's test database
    scroll,         \* the scroll loop of export_qdrant against a scripted store
    hook,           \* run_pre_execution_hooks: instruction, position, commands
                    \* executed, value returned
    prev            \* history: the restore() that was the command before this
                    \* one and the stores it left, where that is recorded

vars == <<clock, short_term_db, long_term_json, db_pre_restore,
          json_pre_restore, backups, collection, qdrant, model, pc,
          backup_id, result, startDb, startJson, collAtBackup, seen, upgrades,
          conn, test_db, scroll, prev, hook>>

(***************************************************************************)
(* Bounds                                                                  *)
(***************************************************************************)
MaxClock == 1
MaxBackups == 1
MaxRows == 2
MaxJson == 2
MaxEntities == 3
MaxPages == 3
MaxToken == 2
MaxWords == 3

(***************************************************************************)
(* Program constants                                                       *)
(***************************************************************************)
VectorSize == 384
OtherSize == 385
BaseSeconds == 59

TableNames == {"memories", "session_memories", "entities", "relationships"}
PointOrder == <<"a", "b">>
PointIds == {PointOrder[i] : i \in 1..Len(PointOrder)}

(***************************************************************************)
(* Files                                                                   *)
(***************************************************************************)
NoFile == [kind |-> "absent"]

Exists(f) == f.kind # "absent"

ExtensionTables == <<"session_memories", "entities", "relationships">>

\* the indexes upgrade_schema creates with a table
IndexesOf(t) ==
    CASE t = "session_memories" ->
             <<"idx_session_memories_session", "idx_session_memories_type">>
      [] t = "entities" -> <<"idx_entities_type", "idx_entities_name">>
      [] t = "relationships" ->
             <<"idx_relationships_source", "idx_relationships_target",
               "idx_relationships_relation">>
      [] OTHER -> <<>>

Range(seq) == {seq[i] : i \in 1..Len(seq)}

DbFile(tables, indexes, rows) ==
    [kind |-> "db", tables |-> tables, indexes |-> indexes, rows |-> rows]

NoRows == [t \in TableNames |-> 0]

\* the file sqlite3.connect() creates for a path that does not exist
EmptyDb == DbFile({}, {}, NoRows)

\* a database that holds memories and the given extension tables, each with
\* its indexes
DbWith(extensions, rows) ==
    DbFile({"memories"} \cup extensions,
           UNION {Range(IndexesOf(t)) : t \in extensions}, rows)

JsonFile(v) == [kind |-> "json", v |-> v]

InitialDbs ==
    { NoFile,
      DbWith(Range(ExtensionTables),
             [NoRows EXCEPT !["memories"] = 1, !["entities"] = 1]) }

(***************************************************************************)
(* backup_id = datetime.utcnow().strftime("%Y%m%d_%H%M%S"): the minute and *)
(* second digits of the instant BaseSeconds + t; the date and hour digits  *)
(* are the same for every instant of the model and are left out.           *)
(***************************************************************************)
TwoDigits(n) == <<(n \div 10) % 10, n % 10>>

\* an id that puts the seconds before the minutes
StrftimeSecondsFirst(t) ==
    LET s == BaseSeconds + t
    IN  TwoDigits(s % 60) \o TwoDigits((s \div 60) % 60)

Strftime(t) ==
    LET s == BaseSeconds + t
    IN  TwoDigits((s \div 60) % 60) \o TwoDigits(s % 60)

Lex(a, b) ==
    \E i \in 1..Len(a) :
        /\ i <= Len(b)
        /\ a[i] < b[i]
        /\ \A j \in 1..(i - 1) : a[j] = b[j]

RECURSIVE Sorted(_)
Sorted(S) ==
    IF S = {} THEN <<>>
    ELSE LET least == CHOOSE x \in S : \A y \in S \ {x} : Lex(x, y)
         IN  <<least>> \o Sorted(S \ {least})

(***************************************************************************)
(* Backup directories                                                      *)
(***************************************************************************)
FileNames == {"short_term.db", "long_term.json", "qdrant_export.json",
              "manifest.json"}

EmptyDir == [n \in FileNames |-> NoFile]

ListDir(dir) == {n \in FileNames : Exists(dir[n])}

BackupIds == DOMAIN backups

(***************************************************************************)
(* Vector collection                                                       *)
(***************************************************************************)
\* a point whose vector has dim components
PointOf(id, dim) ==
    [id |-> id,
     vector |-> [dim |-> dim, of |-> id],
     payload |-> [original_id |-> id]]

Point(id) == PointOf(id, VectorSize)

NoCollection == [exists |-> FALSE, size |-> 0, points |-> {}]

NewCollection(size) == [exists |-> TRUE, size |-> size, points |-> {}]

Stored(coll) ==
    LET ids == SelectSeq(PointOrder,
                         LAMBDA id : \E p \in coll.points : p.id = id)
    IN  [k \in 1..Len(ids) |-> CHOOSE p \in coll.points : p.id = ids[k]]

(***************************************************************************)
(* export_sqlite                                                           *)
(***************************************************************************)
TableRows(db, t, source) ==
    IF t \in db.tables
    THEN [i \in 1..db.rows[t] |-> [source |-> source, id |-> i]]
    ELSE <<>>

\* an export that raises when any of the four tables is missing
ExportSqliteRaisesAnyTable(db) == Exists(db) /\ db.tables # TableNames

\* SELECT * FROM memories is outside any try
ExportSqliteRaises(db) == Exists(db) /\ "memories" \notin db.tables

ExportSqlite(db) ==
    IF ~Exists(db) THEN <<>>
    ELSE TableRows(db, "memories", "sqlite_memories")
         \o TableRows(db, "session_memories", "sqlite_session_memories")
         \o TableRows(db, "entities", "sqlite_entities")
         \o TableRows(db, "relationships", "sqlite_relationships")

(***************************************************************************)
(* export_qdrant                                                           *)
(***************************************************************************)
ScrollLimit == 100
None == 0

Scroll(stored, offset) ==
    LET from == IF offset = None THEN 1 ELSE offset
        rest == SubSeq(stored, from, Len(stored))
    IN  IF Len(rest) > ScrollLimit
        THEN <<SubSeq(rest, 1, ScrollLimit), from + ScrollLimit>>
        ELSE <<rest, None>>

RECURSIVE ScrollAll(_, _, _)
ScrollAll(stored, offset, points) ==
    LET page == Scroll(stored, offset)
    IN  IF page[1] = <<>> THEN points
        ELSE IF page[2] = None THEN points \o page[1]
        ELSE ScrollAll(stored, page[2], points \o page[1])

NativeEntry(point) ==
    [source |-> "qdrant", id |-> point.id, vector |-> point.vector,
     payload |-> point.payload]

Formats == {"native", "mem0", "amem"}

TitleLimit == 50
DefaultImportance == 5

\* dict.get(field, default)
Get(payload, field, default) ==
    IF field \in DOMAIN payload THEN payload[field] ELSE default

\* content[:n]
Take(content, n) ==
    SubSeq(content, 1, IF Len(content) < n THEN Len(content) ELSE n)

\* hashlib.md5(content.encode()).hexdigest(): a function of the content
Md5(content) == [md5 |-> content]

Mem0Entry(point) ==
    [id |-> point.id,
     memory |-> Get(point.payload, "content", <<>>),
     hash |-> Md5(Get(point.payload, "content", <<>>)),
     metadata |->
         [type |-> Get(point.payload, "type", None),
          tags |-> Get(point.payload, "tags", <<>>),
          importance |-> Get(point.payload, "importance", DefaultImportance),
          created_at |-> Get(point.payload, "timestamp", None),
          updated_at |-> Get(point.payload, "timestamp", None)],
     user_id |-> "claude_agent"]

AmemEntry(point) ==
    [id |-> point.id,
     title |-> Take(Get(point.payload, "content", <<>>), TitleLimit)
                   \o <<".", ".", ".">>,
     content |-> Get(point.payload, "content", <<>>),
     keywords |-> Get(point.payload, "tags", <<>>),
     tags |-> Get(point.payload, "tags", <<>>),
     links |-> <<>>,
     created |-> Get(point.payload, "timestamp", None),
     modified |-> Get(point.payload, "timestamp", None),
     importance |-> Get(point.payload, "importance", DefaultImportance)]

FormatEntry(format, point) ==
    IF format = "native" THEN NativeEntry(point)
    ELSE IF format = "mem0" THEN Mem0Entry(point)
    ELSE AmemEntry(point)

\* a conversion that leaves out the points without tags or importance
ConvertedWhereComplete(format, points) ==
    LET complete == SelectSeq(points, LAMBDA p :
                        {"tags", "importance"} \subseteq DOMAIN p.payload)
    IN  [i \in 1..Len(complete) |-> FormatEntry(format, complete[i])]

\* for point in points: memories.append(...)
Converted(format, points) ==
    [i \in 1..Len(points) |-> FormatEntry(format, points[i])]

\* scrollRaises: the scroll call raised (store unreachable, no collection)
ExportQdrantFormat(format, client, coll, scrollRaises) ==
    IF ~client THEN <<>>
    ELSE IF scrollRaises \/ ~coll.exists THEN <<>>
    ELSE Converted(format, ScrollAll(Stored(coll), None, <<>>))

\* export_qdrant() as backup() calls it
ExportQdrant(client, coll, scrollRaises) ==
    ExportQdrantFormat("native", client, coll, scrollRaises)

QdrantExportFile(entries) == [kind |-> "qexp", entries |-> entries]

(***************************************************************************)
(* MemoryMigration.__init__ and the end of the process                     *)
(***************************************************************************)
Construct ==
    \E q \in BOOLEAN, m \in BOOLEAN :
        /\ m => q
        /\ qdrant' = q
        /\ model' = m

\* a command other than upgrade begins
Remember ==
    /\ startDb' = short_term_db
    /\ startJson' = long_term_json
    /\ upgrades' = 0

\* op: the command; ret: its return value, or "raised" or "killed";
\* vec: what became of its vector step, or the statement that raised;
\* ids: what it printed or wrote (backup ids, exported entries, inserted row)
Outcome(op, ret, vec, ids) ==
    [op |-> op, ret |-> ret, vec |-> vec, ids |-> ids]

Exit(op, ret, vec, ids) ==
    /\ pc' = "done"
    /\ qdrant' = FALSE
    /\ model' = FALSE
    /\ result' = Outcome(op, ret, vec, ids)

Running(op) == Outcome(op, "running", "none", <<>>)

(***************************************************************************)
(* backup                                                                  *)
(***************************************************************************)
\* a file list written down in the code instead of read from the directory
ManifestFilesFixed(dir) == FileNames \ {"manifest.json"}

ManifestFiles(dir) == ListDir(dir)

Manifest(id, now, dir, db, qdrant_export) ==
    [kind |-> "manifest",
     backup_id |-> id,
     created_at |-> now,
     files |-> ManifestFiles(dir),
     sqlite_entries |-> Len(ExportSqlite(db)),
     qdrant_entries |-> Len(qdrant_export)]

\* what became of the scroll inside export_qdrant
ScrollSituation(client, coll, scrollRaises) ==
    IF ~client THEN "unavailable"
    ELSE IF scrollRaises \/ ~coll.exists THEN "scroll_failed"
    ELSE "exported"

\* limit: the number of backup directories the model lets exist
BackupBeginWithin(limit) ==
    /\ pc = "idle"
    /\ LET id == Strftime(clock)
       IN  /\ id \in BackupIds \/ Cardinality(BackupIds) < limit
           /\ backup_id' = id
           /\ backups' = IF id \in BackupIds THEN backups
                         ELSE [b \in BackupIds \cup {id} |->
                                 IF b = id THEN EmptyDir ELSE backups[b]]
           /\ collAtBackup' = IF id \in BackupIds THEN collAtBackup
                              ELSE [b \in BackupIds \cup {id} |->
                                      IF b = id THEN {} ELSE collAtBackup[b]]
    /\ Construct
    /\ Remember
    /\ pc' = "b_sqlite"
    /\ result' = Running("backup")
    /\ UNCHANGED <<clock, short_term_db, long_term_json, db_pre_restore,
                   json_pre_restore, collection, seen,
                   conn, test_db, scroll, prev, hook>>

BackupBegin == BackupBeginWithin(MaxBackups)

\* a backup() where one more backup directory may exist
BackupBeginNext == BackupBeginWithin(MaxBackups + 1)

BackupSqlite ==
    /\ pc = "b_sqlite"
    /\ backups' = IF Exists(short_term_db)
                  THEN [backups EXCEPT ![backup_id]["short_term.db"] =
                                           short_term_db]
                  ELSE backups
    /\ pc' = "b_json"
    /\ UNCHANGED <<clock, short_term_db, long_term_json, db_pre_restore,
                   json_pre_restore, collection, qdrant, model, backup_id,
                   result, startDb, startJson, collAtBackup, seen,
                   upgrades, conn, test_db, scroll, prev, hook>>

BackupJson ==
    /\ pc = "b_json"
    /\ backups' = IF Exists(long_term_json)
                  THEN [backups EXCEPT ![backup_id]["long_term.json"] =
                                           long_term_json]
                  ELSE backups
    /\ pc' = "b_qdrant"
    /\ UNCHANGED <<clock, short_term_db, long_term_json, db_pre_restore,
                   json_pre_restore, collection, qdrant, model, backup_id,
                   result, startDb, startJson, collAtBackup, seen,
                   upgrades, conn, test_db, scroll, prev, hook>>

BackupQdrant ==
    /\ pc = "b_qdrant"
    /\ \E scrollRaises \in BOOLEAN :
        /\ scrollRaises => qdrant
        /\ backups' = [backups EXCEPT ![backup_id]["qdrant_export.json"] =
               QdrantExportFile(ExportQdrant(qdrant, collection, scrollRaises))]
        /\ result' = [result EXCEPT !.vec =
               ScrollSituation(qdrant, collection, scrollRaises)]
    /\ collAtBackup' = [collAtBackup EXCEPT ![backup_id] = collection.points]
    /\ pc' = "b_manifest"
    /\ UNCHANGED <<clock, short_term_db, long_term_json, db_pre_restore,
                   json_pre_restore, collection, qdrant, model, backup_id,
                   startDb, startJson, seen,
                   upgrades, conn, test_db, scroll, prev, hook>>

BackupManifest ==
    /\ pc = "b_manifest"
    /\ IF ExportSqliteRaises(short_term_db)
       THEN /\ Exit("backup", "raised", result.vec, <<>>)
            /\ UNCHANGED backups
       ELSE /\ backups' = [backups EXCEPT ![backup_id]["manifest.json"] =
                  Manifest(backup_id, clock, backups[backup_id],
                           short_term_db,
                           backups[backup_id]["qdrant_export.json"].entries)]
            /\ Exit("backup", "backup_id", result.vec, <<>>)
    /\ UNCHANGED <<clock, short_term_db, long_term_json, db_pre_restore,
                   json_pre_restore, collection, backup_id, startDb,
                   startJson, collAtBackup, seen,
                   upgrades, test_db, scroll, prev, hook>>
    /\ conn' = IF ExportSqliteRaises(short_term_db) THEN conn + 1 ELSE conn

(***************************************************************************)
(* restore                                                                 *)
(***************************************************************************)
\* a restore that makes no safety copy
PreRestoreCopySkipped(live, backupFile, old) == old

\* a safety copy that is made only where there is none yet
PreRestoreCopyOnce(live, backupFile, old) ==
    IF Exists(backupFile) /\ Exists(live) /\ ~Exists(old) THEN live ELSE old

\* a safety copy that holds the backup's content instead of the live content
PreRestoreCopyOfBackup(live, backupFile, old) ==
    IF Exists(backupFile) /\ Exists(live) THEN backupFile ELSE old

\* shutil.copy2(live, live.with_suffix(".pre_restore")): the new safety copy
PreRestoreCopy(live, backupFile, old) ==
    IF Exists(backupFile) /\ Exists(live) THEN live ELSE old

\* a restore that removes a live file that already is the backup's
RestoredFileUnlessSame(live, backupFile) ==
    IF ~Exists(backupFile) THEN live
    ELSE IF live = backupFile THEN NoFile
    ELSE backupFile

\* a restore that leaves the live file as it is
RestoredFileKept(live, backupFile) == live

\* a restore that copies the backup file only when a vector client is at hand
RestoredFileWithClient(live, backupFile) ==
    IF Exists(backupFile) /\ qdrant THEN backupFile ELSE live

\* shutil.copy2(backup file, live): the new live file
RestoredFile(live, backupFile) ==
    IF Exists(backupFile) THEN backupFile ELSE live

PointStruct(entry) ==
    [id |-> entry.id, vector |-> entry.vector, payload |-> entry.payload]

Upsert(coll, points) ==
    [coll EXCEPT !.points =
        {p \in @ : \A n \in points : n.id # p.id} \cup points]

UpsertRejected(coll, points) ==
    \/ ~coll.exists
    \/ \E p \in points : p.vector.dim # coll.size

\* the branch restore() takes for the vector artifact
VectorSituation(dir, client, encoder) ==
    IF ~Exists(dir["qdrant_export.json"]) THEN "no_artifact"
    ELSE IF ~(client /\ encoder) THEN "unavailable"
    ELSE IF dir["qdrant_export.json"].entries = <<>> THEN "empty"
    ELSE "recreate"

\* what became of a store call outside any try: the call raised because the
\* store did not answer, or the store answered and refused the request
CallSituation(raises, refused) == IF raises THEN "unreachable" ELSE refused

\* the backup ids restore() prints when it does not find the backup
AvailableBackups == Sorted(BackupIds)

RestoreBegin ==
    /\ pc = "idle"
    /\ Remember
    /\ \E id \in BackupIds \cup {Strftime(clock)} :
        /\ backup_id' = id
        /\ IF id \notin BackupIds
           THEN Exit("restore", "False", "none", AvailableBackups)
           ELSE /\ Construct
                /\ pc' = "r_pre_sqlite"
                /\ result' = Running("restore")
    /\ UNCHANGED <<clock, short_term_db, long_term_json, db_pre_restore,
                   json_pre_restore, backups, collection, collAtBackup, seen,
                   conn, test_db, scroll, prev, hook>>

RestorePreSqlite ==
    /\ pc = "r_pre_sqlite"
    /\ db_pre_restore' = PreRestoreCopy(short_term_db,
                             backups[backup_id]["short_term.db"],
                             db_pre_restore)
    /\ pc' = "r_sqlite"
    /\ UNCHANGED <<clock, short_term_db, long_term_json, json_pre_restore,
                   backups, collection, qdrant, model, backup_id, result,
                   startDb, startJson, collAtBackup, seen,
                   upgrades, conn, test_db, scroll, prev, hook>>

RestoreSqlite ==
    /\ pc = "r_sqlite"
    /\ short_term_db' = RestoredFile(short_term_db,
                            backups[backup_id]["short_term.db"])
    /\ pc' = "r_pre_json"
    /\ UNCHANGED <<clock, long_term_json, db_pre_restore, json_pre_restore,
                   backups, collection, qdrant, model, backup_id, result,
                   startDb, startJson, collAtBackup, seen,
                   upgrades, conn, test_db, scroll, prev, hook>>

RestorePreJson ==
    /\ pc = "r_pre_json"
    /\ json_pre_restore' = PreRestoreCopy(long_term_json,
                               backups[backup_id]["long_term.json"],
                               json_pre_restore)
    /\ pc' = "r_json"
    /\ UNCHANGED <<clock, short_term_db, long_term_json, db_pre_restore,
                   backups, collection, qdrant, model, backup_id, result,
                   startDb, startJson, collAtBackup, seen,
                   upgrades, conn, test_db, scroll, prev, hook>>

RestoreJson ==
    /\ pc = "r_json"
    /\ long_term_json' = RestoredFile(long_term_json,
                             backups[backup_id]["long_term.json"])
    /\ pc' = "r_qdrant"
    /\ UNCHANGED <<clock, short_term_db, db_pre_restore, json_pre_restore,
                   backups, collection, qdrant, model, backup_id, result,
                   startDb, startJson, collAtBackup, seen,
                   upgrades, conn, test_db, scroll, prev, hook>>

Seen(situation, ret) == IF situation = "unavailable" THEN ret ELSE seen

RestoreQdrant ==
    /\ pc = "r_qdrant"
    /\ LET situation == VectorSituation(backups[backup_id], qdrant, model)
       IN  IF situation = "recreate"
           THEN /\ pc' = "r_delete"
                /\ UNCHANGED <<result, seen, qdrant, model>>
           ELSE /\ Exit("restore", "True", situation, <<>>)
                /\ seen' = Seen(situation, "True")
    /\ UNCHANGED <<clock, short_term_db, long_term_json, db_pre_restore,
                   json_pre_restore, backups, collection, backup_id,
                   startDb, startJson, collAtBackup,
                   upgrades, conn, test_db, scroll, prev, hook>>

RestoreDelete ==
    /\ pc = "r_delete"
    /\ \E deleteRaises \in BOOLEAN :
        collection' = IF deleteRaises THEN collection ELSE NoCollection
    /\ pc' = "r_create"
    /\ UNCHANGED <<clock, short_term_db, long_term_json, db_pre_restore,
                   json_pre_restore, backups, qdrant, model, backup_id,
                   result, startDb, startJson, collAtBackup, seen,
                   upgrades, conn, test_db, scroll, prev, hook>>

RestoreCreate ==
    /\ pc = "r_create"
    /\ \E createRaises \in BOOLEAN :
        IF createRaises \/ collection.exists
        THEN /\ Exit("restore", "raised",
                     CallSituation(createRaises, "create_failed"), <<>>)
             /\ UNCHANGED collection
        ELSE /\ pc' = "r_upsert"
             /\ collection' = NewCollection(VectorSize)
             /\ UNCHANGED <<result, qdrant, model>>
    /\ UNCHANGED <<clock, short_term_db, long_term_json, db_pre_restore,
                   json_pre_restore, backups, backup_id, startDb, startJson,
                   collAtBackup, seen,
                   upgrades, conn, test_db, scroll, prev, hook>>

RestoreUpsert ==
    /\ pc = "r_upsert"
    /\ LET qdrant_data == backups[backup_id]["qdrant_export.json"].entries
           points == {PointStruct(qdrant_data[i]) : i \in 1..Len(qdrant_data)}
       IN  \E upsertRaises \in BOOLEAN :
              IF upsertRaises \/ UpsertRejected(collection, points)
              THEN /\ Exit("restore", "raised",
                           CallSituation(upsertRaises, "upsert_failed"), <<>>)
                   /\ UNCHANGED collection
              ELSE /\ collection' = Upsert(collection, points)
                   /\ Exit("restore", "True", "restored", <<>>)
    /\ UNCHANGED <<clock, short_term_db, long_term_json, db_pre_restore,
                   json_pre_restore, backups, backup_id, startDb, startJson,
                   collAtBackup, seen,
                   upgrades, conn, test_db, scroll, prev, hook>>

(***************************************************************************)
(* list_backups                                                            *)
(***************************************************************************)
HasManifest(dir) == Exists(dir["manifest.json"])

Listing == SelectSeq(Sorted(BackupIds), LAMBDA b : HasManifest(backups[b]))

ListBackups ==
    /\ pc = "idle"
    /\ Remember
    /\ Exit("list", "None", "none", Listing)
    /\ UNCHANGED <<clock, short_term_db, long_term_json, db_pre_restore,
                   json_pre_restore, backups, collection, backup_id,
                   collAtBackup, seen,
                   conn, test_db, scroll, prev, hook>>

(***************************************************************************)
(* query_memory.py: the writers of the live stores                         *)
(***************************************************************************)
AddShortTerm ==
    /\ pc = "idle"
    /\ IF ~Exists(short_term_db)
       THEN /\ short_term_db' = EmptyDb
            /\ Exit("add", "raised", "none", <<>>)
       ELSE IF "memories" \notin short_term_db.tables
       THEN /\ Exit("add", "raised", "none", <<>>)
            /\ UNCHANGED short_term_db
       ELSE /\ short_term_db.rows["memories"] < MaxRows
            /\ short_term_db' =
                  [short_term_db EXCEPT !.rows["memories"] = @ + 1]
            /\ Exit("add", "None", "none", <<>>)
    /\ Remember
    /\ UNCHANGED <<clock, long_term_json, db_pre_restore, json_pre_restore,
                   backups, collection, backup_id, collAtBackup, seen,
                   test_db, scroll, prev, hook>>
    /\ conn' = IF result'.ret = "raised" THEN conn + 1 ELSE conn

StoreLongTerm ==
    /\ pc = "idle"
    /\ \E id \in PointIds, importOk \in BOOLEAN, upsertRaises \in BOOLEAN :
        /\ Point(id) \notin collection.points
        /\ IF ~importOk
           THEN /\ Exit("store", "None", "unavailable", <<>>)
                /\ UNCHANGED collection
           ELSE IF upsertRaises \/ UpsertRejected(collection, {Point(id)})
           THEN /\ Exit("store", "raised",
                        CallSituation(upsertRaises, "upsert_failed"), <<>>)
                /\ UNCHANGED collection
           ELSE /\ collection' = Upsert(collection, {Point(id)})
                /\ Exit("store", "None", "stored", <<>>)
    /\ Remember
    /\ UNCHANGED <<clock, short_term_db, long_term_json, db_pre_restore,
                   json_pre_restore, backups, backup_id, collAtBackup, seen,
                   conn, test_db, scroll, prev, hook>>

\* query_long_term: client.query_points raises when the store does not
\* answer or the collection does not exist; nothing is written
QueryLongTerm ==
    /\ pc = "idle"
    /\ \E importOk \in BOOLEAN, queryRaises \in BOOLEAN :
        IF ~importOk
        THEN Exit("search", "None", "unavailable", <<>>)
        ELSE IF queryRaises \/ ~collection.exists
        THEN Exit("search", "raised",
                  CallSituation(queryRaises, "query_failed"), <<>>)
        ELSE Exit("search", "None", "searched", <<>>)
    /\ Remember
    /\ UNCHANGED <<clock, short_term_db, long_term_json, db_pre_restore,
                   json_pre_restore, backups, collection, backup_id,
                   collAtBackup, seen,
                   conn, test_db, scroll, prev, hook>>

\* query_short_term: the SELECT on memories runs between connect and close
QueryShortTerm ==
    /\ pc = "idle"
    /\ Remember
    /\ IF ~Exists(short_term_db)
       THEN /\ Exit("query", "None", "none", <<>>)
            /\ UNCHANGED conn
       ELSE IF "memories" \notin short_term_db.tables
       THEN /\ Exit("query", "raised", "none", <<>>)
            /\ conn' = conn + 1
       ELSE /\ Exit("query", "None", "none", <<>>)
            /\ UNCHANGED conn
    /\ UNCHANGED <<clock, short_term_db, long_term_json, db_pre_restore,
                   json_pre_restore, backups, collection, backup_id,
                   collAtBackup, seen, test_db, scroll, prev, hook>>

(***************************************************************************)
(* main: export sqlite <output>.  The entries written to the output file   *)
(* are kept in result.ids.                                                 *)
(***************************************************************************)
ExportCommand ==
    /\ pc = "idle"
    /\ Remember
    /\ IF ExportSqliteRaises(short_term_db)
       THEN /\ Exit("export", "raised", "none", <<>>)
            /\ conn' = conn + 1
       ELSE /\ Exit("export", "None", "none", ExportSqlite(short_term_db))
            /\ UNCHANGED conn
    /\ UNCHANGED <<clock, short_term_db, long_term_json, db_pre_restore,
                   json_pre_restore, backups, collection, backup_id,
                   collAtBackup, seen, test_db, scroll, prev, hook>>

(***************************************************************************)
(* main: export qdrant --format <format> <output>.  The entries written to *)
(* the output file are kept in result.ids, the format in result.op.        *)
(***************************************************************************)
ExportOp(format) ==
    [native |-> "export_native", mem0 |-> "export_mem0",
     amem |-> "export_amem"][format]

ExportQdrantCommand ==
    /\ pc = "idle"
    /\ Remember
    /\ \E format \in Formats, client \in BOOLEAN, scrollRaises \in BOOLEAN :
          Exit(ExportOp(format), "None",
               IF ~client THEN "unavailable"
               ELSE IF scrollRaises \/ ~collection.exists THEN "unreachable"
               ELSE "exported",
               ExportQdrantFormat(format, client, collection, scrollRaises))
    /\ UNCHANGED <<clock, short_term_db, long_term_json, db_pre_restore,
                   json_pre_restore, backups, collection, backup_id,
                   collAtBackup, seen, conn, test_db, scroll, prev, hook>>

(***************************************************************************)
(* upgrade_schema                                                          *)
(***************************************************************************)
\* SELECT name FROM sqlite_master WHERE type='table'
ExistingTables(db) == db.tables

Statement(verb, name) == [verb |-> verb, name |-> name]

CreateStatements(t) ==
    <<Statement("create_table", t)>>
    \o [i \in 1..Len(IndexesOf(t)) |->
           Statement("create_index", IndexesOf(t)[i])]

RECURSIVE StatementsFor(_, _)
StatementsFor(tables, existing_tables) ==
    IF tables = <<>> THEN <<>>
    ELSE (IF Head(tables) \notin existing_tables
          THEN CreateStatements(Head(tables)) ELSE <<>>)
         \o StatementsFor(Tail(tables), existing_tables)

\* an upgrade that creates the first absent extension table only
UpgradeStatementsFirst(existing_tables) ==
    LET absent == SelectSeq(ExtensionTables,
                            LAMBDA t : t \notin existing_tables)
    IN  <<Statement("select", "sqlite_master")>>
        \o (IF absent = <<>> THEN <<>> ELSE CreateStatements(Head(absent)))

\* the statements upgrade_schema executes, in order
UpgradeStatements(existing_tables) ==
    <<Statement("select", "sqlite_master")>>
    \o StatementsFor(ExtensionTables, existing_tables)

\* what one statement does to the database; outside a transaction, so it
\* is kept whatever comes after it
Execute(db, stmt) ==
    CASE stmt.verb = "create_table" ->
             [db EXCEPT !.tables = @ \cup {stmt.name}]
      [] stmt.verb = "create_index" ->
             [db EXCEPT !.indexes = @ \cup {stmt.name}]
      [] OTHER -> db

RECURSIVE ExecuteAll(_, _)
ExecuteAll(db, stmts) ==
    IF stmts = <<>> THEN db
    ELSE ExecuteAll(Execute(db, Head(stmts)), Tail(stmts))

\* the database refuses to create what exists
Refused(db, stmt) ==
    \/ stmt.verb = "create_table" /\ stmt.name \in db.tables
    \/ stmt.verb = "create_index" /\ stmt.name \in db.indexes

\* the statements that may raise: any of them (disk, lock, damaged file) up
\* to the first one the database refuses; 0 stands for none
FailPoints(db, stmts) ==
    LET refused == {i \in 1..Len(stmts) : Refused(db, stmts[i])}
    IN  IF refused = {} THEN 0..Len(stmts)
        ELSE 1..(CHOOSE i \in refused : \A j \in refused : i <= j)

\* statements whose effect is undone when a later one raises
ExecutedOrNone(stmts, failAt) ==
    IF failAt = 0 THEN stmts ELSE <<>>

\* the statements that were executed when statement failAt raised
Executed(stmts, failAt) ==
    IF failAt = 0 THEN stmts ELSE SubSeq(stmts, 1, failAt - 1)

\* an upgrade that connects before it looks for the file
UpgradedConnectFirst(db, failAt) ==
    ExecuteAll(IF Exists(db) THEN db ELSE EmptyDb,
               Executed(UpgradeStatements(
                            IF Exists(db) THEN ExistingTables(db) ELSE {}),
                        failAt))

\* short_term.db after upgrade_schema
Upgraded(db, failAt) ==
    IF ~Exists(db) THEN db
    ELSE ExecuteAll(db, Executed(UpgradeStatements(ExistingTables(db)),
                                 failAt))

UpgradeSchema ==
    /\ pc = "idle"
    /\ startDb' = short_term_db
    /\ startJson' = long_term_json
    /\ LET stmts == IF Exists(short_term_db)
                    THEN UpgradeStatements(ExistingTables(short_term_db))
                    ELSE <<>>
       IN  \E failAt \in FailPoints(short_term_db, stmts) :
              /\ short_term_db' = Upgraded(short_term_db, failAt)
              /\ IF failAt = 0
                 THEN /\ Exit("upgrade", "None", "none", <<>>)
                      /\ upgrades' = IF upgrades = 0 THEN 1 ELSE 2
                      /\ UNCHANGED conn
                 ELSE /\ Exit("upgrade", "raised", stmts[failAt].name, <<>>)
                      /\ upgrades' = 0
                      /\ conn' = conn + 1
    /\ UNCHANGED <<clock, long_term_json, db_pre_restore, json_pre_restore,
                   backups, collection, backup_id, collAtBackup, seen,
                   test_db, scroll, prev, hook>>

(***************************************************************************)
(* The scroll loop of export_qdrant, one request per step, against a store *)
(* that serves a given sequence of pages whatever it is asked.             *)
(***************************************************************************)
Page(records, token) == [records |-> records, token |-> token]

\* pages: the pages the store will serve; requests: the offsets of the
\* requests made; offset, points: the loop's variables; at: "loop" or "done"
ScrollState(pages, requests, offset, points, at) ==
    [pages |-> pages, requests |-> requests, offset |-> offset,
     points |-> points, at |-> at]

NoScroll == ScrollState(<<>>, <<>>, None, <<>>, "off")

\* the answer to the k-th request; a store that has served all of its pages
\* has nothing more
Served(pages, k) == IF k <= Len(pages) THEN pages[k] ELSE Page(<<>>, None)

\* a loop that also takes a page shorter than the limit for the last one
ScrollEndsAtShortPage(page) ==
    \/ page.records = <<>>
    \/ page.token = None
    \/ Len(page.records) < ScrollLimit

\* if not result[0]: break / if offset is None: break
ScrollEnds(page) ==
    \/ page.records = <<>>
    \/ page.token = None

ScrollRequest ==
    /\ scroll.at = "loop"
    /\ LET page == Served(scroll.pages, Len(scroll.requests) + 1)
       IN  scroll' =
              ScrollState(scroll.pages,
                          Append(scroll.requests, scroll.offset),
                          IF page.records = <<>> THEN scroll.offset
                          ELSE page.token,
                          scroll.points \o page.records,
                          IF ScrollEnds(page) THEN "done" ELSE "loop")
    /\ UNCHANGED <<clock, short_term_db, long_term_json, db_pre_restore,
                   json_pre_restore, backups, collection, qdrant, model, pc,
                   backup_id, result, startDb, startJson, collAtBackup, seen,
                   upgrades, conn, test_db, prev, hook>>

(***************************************************************************)
(* benchmark_memory_systems.py: the test database and its entities         *)
(***************************************************************************)
EntityTypes == {"file", "function", "concept", "error"}

EntityNames == {"entity_0", "entity_1"}

Entity(type, name) == [type |-> type, name |-> name]

\* entities: the rows of the entities table, in the order of their ids
TestDb(entities) == [kind |-> "testdb", entities |-> entities]

\* UNIQUE(type, name): a row with this pair is in the table
Conflicts(db, row) ==
    \E i \in 1..Len(db.entities) :
        /\ db.entities[i].type = row.type
        /\ db.entities[i].name = row.name

\* a plain INSERT on a table without the UNIQUE constraint
InsertAlways(db, row) == [db EXCEPT !.entities = Append(@, row)]

\* INSERT OR IGNORE INTO entities
InsertOrIgnore(db, row) ==
    IF Conflicts(db, row) THEN db
    ELSE [db EXCEPT !.entities = Append(@, row)]

SetupTestSqlite ==
    /\ pc = "idle"
    /\ test_db # TestDb(<<>>)
    /\ test_db' = TestDb(<<>>)
    /\ result' = Outcome("setup", "None", "none", <<>>)
    /\ UNCHANGED <<clock, short_term_db, long_term_json, db_pre_restore,
                   json_pre_restore, backups, collection, qdrant, model, pc,
                   backup_id, startDb, startJson, collAtBackup, seen,
                   upgrades, conn, scroll, prev, hook>>

\* one INSERT OR IGNORE of run_sqlite_benchmarks; result.ids holds the row
InsertEntity ==
    /\ pc = "idle"
    /\ Exists(test_db)
    /\ \E type \in EntityTypes, name \in EntityNames :
        LET row == Entity(type, name)
        IN  /\ Conflicts(test_db, row) \/ Len(test_db.entities) < MaxEntities
            /\ test_db' = InsertOrIgnore(test_db, row)
            /\ result' = Outcome("insert", "None", "none", <<row>>)
    /\ UNCHANGED <<clock, short_term_db, long_term_json, db_pre_restore,
                   json_pre_restore, backups, collection, qdrant, model, pc,
                   backup_id, startDb, startJson, collAtBackup, seen,
                   upgrades, conn, scroll, prev, hook>>

(***************************************************************************)
(* Environment: the owner of long_term.json rewrites it, the clock         *)
(* advances, the process is stopped in the middle of a command             *)
(***************************************************************************)
WriteLongTermJson ==
    /\ pc = "idle"
    /\ \E v \in 1..MaxJson :
        /\ long_term_json # JsonFile(v)
        /\ long_term_json' = JsonFile(v)
    /\ UNCHANGED <<clock, short_term_db, db_pre_restore, json_pre_restore,
                   backups, collection, qdrant, model, pc, backup_id, result,
                   startDb, startJson, collAtBackup, seen,
                   upgrades, conn, test_db, scroll, prev, hook>>

Tick ==
    /\ clock < MaxClock
    /\ clock' = clock + 1
    /\ UNCHANGED <<short_term_db, long_term_json, db_pre_restore,
                   json_pre_restore, backups, collection, qdrant, model, pc,
                   backup_id, result, startDb, startJson, collAtBackup, seen,
                   upgrades, conn, test_db, scroll, prev, hook>>

Kill ==
    /\ pc \notin {"idle", "done"}
    /\ Exit(result.op, "killed", result.vec, <<>>)
    /\ UNCHANGED <<clock, short_term_db, long_term_json, db_pre_restore,
                   json_pre_restore, backups, collection, backup_id,
                   startDb, startJson, collAtBackup, seen,
                   upgrades, conn, test_db, scroll, prev, hook>>

\* the process ends; the next command starts a new one
NoOutcome == Outcome("none", "none", "none", <<>>)

\* what a restore() was given and what it left
Summary ==
    [op |-> result.op, ret |-> result.ret, vec |-> result.vec,
     id |-> backup_id, start |-> startDb, db |-> short_term_db,
     json |-> long_term_json, coll |-> collection]

NoPrev ==
    [op |-> "none", ret |-> "none", vec |-> "none", id |-> Strftime(0),
     start |-> NoFile, db |-> NoFile, json |-> NoFile, coll |-> NoCollection]

\* keep: the history of the command before is recorded
ProcessExitWith(keep) ==
    /\ pc = "done"
    /\ pc' = "idle"
    /\ result' = NoOutcome
    /\ backup_id' = Strftime(0)
    /\ startDb' = NoFile
    /\ startJson' = NoFile
    /\ prev' = IF keep /\ result.op = "restore" THEN Summary ELSE NoPrev
    /\ UNCHANGED <<clock, short_term_db, long_term_json, db_pre_restore,
                   json_pre_restore, backups, collection, qdrant, model,
                   collAtBackup, seen,
                   upgrades, test_db, scroll, hook>>
    /\ conn' = 0

ProcessExit == ProcessExitWith(FALSE)

ProcessExitRecorded == ProcessExitWith(TRUE)

(***************************************************************************)
(* pre_execution_hooks.py.  A text is a sequence of fragments; a keyword   *)
(* occurs in a text when its fragments occur there one after the other.    *)
(***************************************************************************)
TaskOrder ==
    <<"db-wal-recovery", "filter-js-from-html", "gpt2-codegolf",
      "regex-chess", "chess-best-move", "code-from-image",
      "write-compressor", "winning-avg-corewars">>

\* PRE_EXECUTION_HOOKS[task]['detection_keywords']
DetectionKeywords ==
    [t \in Range(TaskOrder) |->
        CASE t = "db-wal-recovery" ->
                 <<(<<"wal">>), <<"db-", "wal">>, <<"sqlite">>, <<"recovery">>>>
          [] t = "filter-js-from-html" ->
                 <<(<<"filter">>), <<"javascript">>, <<"html">>, <<"xss">>>>
          [] t = "gpt2-codegolf" ->
                 <<(<<"gpt2">>), <<"gpt-2">>, <<"124m">>, <<"code", "golf">>,
                   <<"inference">>>>
          [] t = "regex-chess" ->
                 <<(<<"regex">>), <<"chess">>, <<"re.json">>, <<"legal move">>>>
          [] t = "chess-best-move" ->
                 <<(<<"chess">>), <<"best move">>, <<"board">>, <<"image">>>>
          [] t = "code-from-image" ->
                 <<(<<"code">>), <<"image">>, <<"ocr">>, <<"screenshot">>,
                   <<"extract">>>>
          [] t = "write-compressor" ->
                 <<(<<"comp", "ress">>), <<"de", "comp", "ress", "or">>,
                   <<"de", "comp">>, <<"en", "code">>>>
          [] OTHER ->
                 <<(<<"corewars">>), <<"warrior">>, <<"pmars">>,
                   <<"red", "code">>, <<"win rate">>>>]

\* the number of commands of each task
CommandCount ==
    [t \in Range(TaskOrder) |->
        CASE t = "db-wal-recovery" -> 3
          [] t = "filter-js-from-html" -> 2
          [] t = "gpt2-codegolf" -> 1
          [] t = "regex-chess" -> 1
          [] t = "chess-best-move" -> 4
          [] t = "code-from-image" -> 2
          [] t = "write-compressor" -> 3
          [] OTHER -> 2]

Command(task, i) == [task |-> task, command |-> i]

\* get_pre_execution_commands
GetPreExecutionCommands(task_name) ==
    IF task_name \in Range(TaskOrder)
    THEN [i \in 1..CommandCount[task_name] |-> Command(task_name, i)]
    ELSE <<>>

\* get_post_execution_context: every task of the table has its own text
GetPostExecutionContext(task_name) ==
    IF task_name \in Range(TaskOrder) THEN "context of " \o task_name ELSE ""

NoTask == "None"
Threshold == 2

\* str.lower on the fragments that are written with capitals
Capitals == [WAL |-> "wal", Chess |-> "chess", Code |-> "code"]

Lower(text) ==
    [i \in 1..Len(text) |->
        IF text[i] \in DOMAIN Capitals THEN Capitals[text[i]] ELSE text[i]]

\* kw in lower
Occurs(kw, text) ==
    \E i \in 1..(Len(text) - Len(kw) + 1) :
        SubSeq(text, i, i + Len(kw) - 1) = kw

\* sum(1 for kw in keywords if kw in lower)
Matches(keywords, lower) ==
    Cardinality({k \in 1..Len(keywords) : Occurs(keywords[k], lower)})

\* a detection where the last task of the table that reaches the threshold
\* wins
RECURSIVE DetectLast(_, _)
DetectLast(tasks, lower) ==
    IF tasks = <<>> THEN NoTask
    ELSE IF Matches(DetectionKeywords[tasks[Len(tasks)]], lower) >= Threshold
    THEN tasks[Len(tasks)]
    ELSE DetectLast(SubSeq(tasks, 1, Len(tasks) - 1), lower)

\* for task_name, config in PRE_EXECUTION_HOOKS.items(): ... return task_name
RECURSIVE DetectFrom(_, _)
DetectFrom(tasks, lower) ==
    IF tasks = <<>> THEN NoTask
    ELSE IF Matches(DetectionKeywords[Head(tasks)], lower) >= Threshold
    THEN Head(tasks)
    ELSE DetectFrom(Tail(tasks), lower)

DetectTaskFromInstruction(instruction) ==
    DetectFrom(TaskOrder, Lower(instruction))

HookState(instruction, at, task_name, ran, ret) ==
    [instruction |-> instruction, at |-> at, task_name |-> task_name,
     ran |-> ran, ret |-> ret]

NoHook == HookState(<<>>, "none", NoTask, <<>>, "")

\* task_name = detect_task_from_instruction(instruction) and the two early
\* returns
HookDetect ==
    /\ hook.at = "start"
    /\ LET task_name == DetectTaskFromInstruction(hook.instruction)
       IN  hook' =
             IF task_name = NoTask
             THEN [hook EXCEPT !.at = "returned", !.ret = ""]
             ELSE IF GetPreExecutionCommands(task_name) = <<>>
             THEN [hook EXCEPT !.at = "returned", !.task_name = task_name,
                               !.ret = ""]
             ELSE [hook EXCEPT !.at = "exec", !.task_name = task_name]
    /\ UNCHANGED <<clock, short_term_db, long_term_json, db_pre_restore,
                   json_pre_restore, backups, collection, qdrant, model, pc,
                   backup_id, result, startDb, startJson, collAtBackup, seen,
                   upgrades, conn, test_db, scroll, prev>>

\* one turn of the loop: await environment.exec(cmd, timeout=30) in a try
HookExec ==
    /\ hook.at = "exec"
    /\ LET commands == GetPreExecutionCommands(hook.task_name)
           cmd == commands[Len(hook.ran) + 1]
       IN  \E failed \in BOOLEAN :
              hook' = [hook EXCEPT
                          !.ran = Append(@, [cmd |-> cmd, failed |-> failed]),
                          !.at = IF Len(hook.ran) + 1 = Len(commands)
                                 THEN "return" ELSE "exec"]
    /\ UNCHANGED <<clock, short_term_db, long_term_json, db_pre_restore,
                   json_pre_restore, backups, collection, qdrant, model, pc,
                   backup_id, result, startDb, startJson, collAtBackup, seen,
                   upgrades, conn, test_db, scroll, prev>>

\* return get_post_execution_context(task_name)
HookReturn ==
    /\ hook.at = "return"
    /\ hook' = [hook EXCEPT !.at = "returned",
                            !.ret = GetPostExecutionContext(hook.task_name)]
    /\ UNCHANGED <<clock, short_term_db, long_term_json, db_pre_restore,
                   json_pre_restore, backups, collection, qdrant, model, pc,
                   backup_id, result, startDb, startJson, collAtBackup, seen,
                   upgrades, conn, test_db, scroll, prev>>

(***************************************************************************)
(* Specification                                                           *)
(***************************************************************************)
InitWith(dbs, jsons, collections) ==
    /\ clock = 0
    /\ short_term_db \in dbs
    /\ long_term_json \in jsons
    /\ db_pre_restore = NoFile
    /\ json_pre_restore = NoFile
    /\ backups = [b \in {} |-> EmptyDir]
    /\ collection \in collections
    /\ qdrant = FALSE
    /\ model = FALSE
    /\ pc = "idle"
    /\ backup_id = Strftime(0)
    /\ result = NoOutcome
    /\ startDb = NoFile
    /\ startJson = NoFile
    /\ collAtBackup = [b \in {} |-> {}]
    /\ seen = "none"
    /\ upgrades = 0
    /\ conn = 0
    /\ test_db = NoFile
    /\ prev = NoPrev

Commands ==
    \/ BackupBegin
    \/ BackupSqlite
    \/ BackupJson
    \/ BackupQdrant
    \/ BackupManifest
    \/ RestoreBegin
    \/ RestorePreSqlite
    \/ RestoreSqlite
    \/ RestorePreJson
    \/ RestoreJson
    \/ RestoreQdrant
    \/ RestoreDelete
    \/ RestoreCreate
    \/ RestoreUpsert
    \/ ListBackups
    \/ Tick
    \/ Kill
    \/ ProcessExit

\* The file stores vary: rows are appended, long_term.json is rewritten; the
\* collection holds what it held at the start or what a restore put there.
Init ==
    /\ InitWith(InitialDbs, {NoFile, JsonFile(1)},
                {NoCollection, Upsert(NewCollection(VectorSize), {Point("a")})})
    /\ scroll = NoScroll
    /\ hook = NoHook

Next ==
    \/ Commands
    \/ AddShortTerm
    \/ WriteLongTermJson

Spec == Init /\ [][Next]_vars

\* The vector store varies: records are stored in the collection; the file
\* stores hold what they held at the start or what a restore put there.
InitVector ==
    /\ InitWith(InitialDbs, {JsonFile(1)},
                {NoCollection, NewCollection(VectorSize)})
    /\ scroll = NoScroll
    /\ hook = NoHook

NextVector ==
    \/ Commands
    \/ StoreLongTerm
    \/ QueryLongTerm

SpecVector == InitVector /\ [][NextVector]_vars

\* The schema of short_term.db varies: it starts with memories and any of
\* the extension tables, and the relational commands run on it.
InitialRows(extensions) ==
    [t \in TableNames |-> IF t = "memories" \/ t \in extensions THEN 1 ELSE 0]

InitRelational ==
    /\ InitWith({NoFile} \cup {DbWith(e, InitialRows(e)) :
                                  e \in SUBSET Range(ExtensionTables)},
                {JsonFile(1)}, {NoCollection})
    /\ scroll = NoScroll
    /\ hook = NoHook

NextRelational ==
    \/ UpgradeSchema
    \/ ExportCommand
    \/ AddShortTerm
    \/ QueryShortTerm
    \/ ProcessExit

SpecRelational == InitRelational /\ [][NextRelational]_vars

\* Two backups are made of different contents and restored one after the
\* other; what the restore before left is recorded.
InitRestore ==
    /\ InitWith({DbWith(Range(ExtensionTables), NoRows)}, {JsonFile(1)},
                {Upsert(NewCollection(VectorSize), {Point("a")})})
    /\ scroll = NoScroll
    /\ hook = NoHook

NextRestore ==
    \/ BackupBeginNext
    \/ BackupSqlite
    \/ BackupJson
    \/ BackupQdrant
    \/ BackupManifest
    \/ RestoreBegin
    \/ RestorePreSqlite
    \/ RestoreSqlite
    \/ RestorePreJson
    \/ RestoreJson
    \/ RestoreQdrant
    \/ RestoreDelete
    \/ RestoreCreate
    \/ RestoreUpsert
    \/ AddShortTerm
    \/ Tick
    \/ ProcessExitRecorded

SpecRestore == InitRestore /\ [][NextRestore]_vars

\* The collection holds one or two points whose payloads lack any of the
\* payload fields; it is exported in each format.
PayloadValues ==
    [original_id |-> 1, type |-> "observation", tags |-> <<"t">>,
     importance |-> 7, content |-> <<"c">>, timestamp |-> 1]

Payloads == {[f \in fields |-> PayloadValues[f]] :
                fields \in SUBSET DOMAIN PayloadValues}

PointWith(id, payload) ==
    [id |-> id, vector |-> [dim |-> VectorSize, of |-> id],
     payload |-> payload]

InitFormats ==
    /\ InitWith({NoFile}, {NoFile},
                {Upsert(NewCollection(VectorSize),
                        {PointWith("a", p), PointWith("b", PayloadValues)}) :
                     p \in Payloads}
                \cup {Upsert(NewCollection(VectorSize), {PointWith("b", p)}) :
                         p \in Payloads})
    /\ scroll = NoScroll
    /\ hook = NoHook

NextFormats ==
    \/ ExportQdrantCommand
    \/ ProcessExit

SpecFormats == InitFormats /\ [][NextFormats]_vars

\* The collection was made by the deployment for its encoder, with vectors
\* of VectorSize components or of OtherSize; it is backed up and restored.
InitSized ==
    /\ InitWith({DbWith(Range(ExtensionTables), NoRows)}, {JsonFile(1)},
                {Upsert(NewCollection(VectorSize), {Point("a")}),
                 Upsert(NewCollection(OtherSize), {PointOf("a", OtherSize)}),
                 Upsert(NewCollection(OtherSize),
                        {PointOf("a", OtherSize), PointOf("b", OtherSize)})})
    /\ scroll = NoScroll
    /\ hook = NoHook

NextSized ==
    \/ BackupBegin
    \/ BackupSqlite
    \/ BackupJson
    \/ BackupQdrant
    \/ BackupManifest
    \/ RestoreBegin
    \/ RestorePreSqlite
    \/ RestoreSqlite
    \/ RestorePreJson
    \/ RestoreJson
    \/ RestoreQdrant
    \/ RestoreDelete
    \/ RestoreCreate
    \/ RestoreUpsert
    \/ ProcessExit

SpecSized == InitSized /\ [][NextSized]_vars

\* Backups are made in different seconds and listed; the live stores hold
\* what they held at the start.
InitListing ==
    /\ InitWith(InitialDbs, {JsonFile(1)}, {NoCollection})
    /\ scroll = NoScroll
    /\ hook = NoHook

NextListing ==
    \/ BackupBeginNext
    \/ BackupSqlite
    \/ BackupJson
    \/ BackupQdrant
    \/ BackupManifest
    \/ ListBackups
    \/ Tick
    \/ Kill
    \/ ProcessExit

SpecListing == InitListing /\ [][NextListing]_vars

\* The benchmark's test database: set up, then entities are inserted.
InitBenchmark ==
    /\ InitWith({NoFile}, {NoFile}, {NoCollection})
    /\ scroll = NoScroll
    /\ hook = NoHook

NextBenchmark ==
    \/ SetupTestSqlite
    \/ InsertEntity

SpecBenchmark == InitBenchmark /\ [][NextBenchmark]_vars

\* The scroll loop against every store that serves MaxPages pages of at most
\* two records, each with one of MaxToken tokens or without a token.
PageRecords == {<<>>, <<"a">>, <<"b", "c">>}

Scripts ==
    [1..MaxPages -> {Page(r, t) : r \in PageRecords, t \in None..MaxToken}]

InitScroll ==
    /\ InitWith({NoFile}, {NoFile}, {NoCollection})
    /\ hook = NoHook
    /\ \E pages \in Scripts :
          scroll = ScrollState(pages, <<>>, None, <<>>, "loop")

NextScroll == ScrollRequest

SpecScroll == InitScroll /\ [][NextScroll]_vars

\* The hooks run on every instruction of at most MaxWords fragments.
Vocabulary ==
    {"wal", "WAL", "db-", "sqlite", "regex", "chess", "Chess", "image",
     "board", "code", "Code", "en", "golf", "red", "de", "comp", "ress",
     "or", "the"}

RECURSIVE Texts(_)
Texts(n) ==
    IF n = 0 THEN {<<>>}
    ELSE Texts(n - 1)
         \cup {Append(t, w) : t \in {x \in Texts(n - 1) : Len(x) = n - 1},
                              w \in Vocabulary}

InitHooks ==
    /\ InitWith({NoFile}, {NoFile}, {NoCollection})
    /\ scroll = NoScroll
    /\ \E instruction \in Texts(MaxWords) :
          hook = HookState(instruction, "start", NoTask, <<>>, "")

NextHooks ==
    \/ HookDetect
    \/ HookExec
    \/ HookReturn

SpecHooks == InitHooks /\ [][NextHooks]_vars

TypeOK ==
    /\ clock \in 0..MaxClock
    /\ pc \in {"idle", "done", "b_sqlite", "b_json", "b_qdrant", "b_manifest",
               "r_pre_sqlite", "r_sqlite", "r_pre_json", "r_json",
               "r_qdrant", "r_delete", "r_create", "r_upsert"}
    /\ Cardinality(BackupIds) <= MaxBackups

(***************************************************************************)
(* Properties                                                              *)
(***************************************************************************)
Finished(op) == pc = "done" /\ result.op = op

\* restore() has carried out all of its file steps
FileStepsDone ==
    /\ result.op = "restore"
    /\ \/ pc \in {"r_qdrant", "r_delete", "r_create", "r_upsert"}
       \/ pc = "done" /\ result.ret \in {"True", "raised"}

Replaced(live, pre, before, backupFile) ==
    Exists(before) /\ Exists(backupFile) => live = backupFile /\ pre = before

\* C1: non-destructive restore. For short_term.db and for long_term.json: if
\* the live file held A when restore() began and the backup holds B for it,
\* then once restore() has done its file steps the live file is B and its
\* .pre_restore sibling is A.
NonDestructiveRestore ==
    FileStepsDone =>
        /\ Replaced(short_term_db, db_pre_restore, startDb,
                    backups[backup_id]["short_term.db"])
        /\ Replaced(long_term_json, json_pre_restore, startJson,
                    backups[backup_id]["long_term.json"])

\* a restore that returned, where both live files existed and both differed
\* from the backup's copies
NonDestructiveRestoreWitness ==
    /\ Finished("restore")
    /\ result.ret = "True"
    /\ Exists(startDb)
    /\ Exists(startJson)
    /\ Exists(backups[backup_id]["short_term.db"])
    /\ Exists(backups[backup_id]["long_term.json"])
    /\ startDb # backups[backup_id]["short_term.db"]
    /\ startJson # backups[backup_id]["long_term.json"]

\* a restore() is under way or has ended for an id without a manifest.json
RestoringWithoutManifest ==
    /\ result.op = "restore"
    /\ pc # "idle"
    /\ backup_id \in BackupIds => ~HasManifest(backups[backup_id])

\* C2: a restore() of an id that has no manifest.json changes neither live
\* file, neither .pre_restore file nor the collection, and returns not-found.
NoManifestNoRestore ==
    [][RestoringWithoutManifest' =>
          /\ UNCHANGED <<short_term_db, long_term_json, db_pre_restore,
                         json_pre_restore, collection>>
          /\ (pc' = "done" /\ result'.ret # "killed" => result'.ret = "False")
      ]_vars

\* C3: the manifest is written last. A backup directory that holds a
\* manifest.json holds every file the manifest names, and the manifest names
\* the vector export, whatever step a backup() was stopped at.
ManifestWrittenLast ==
    \A b \in BackupIds :
        HasManifest(backups[b]) =>
            /\ backups[b]["manifest.json"].files \subseteq ListDir(backups[b])
            /\ "qdrant_export.json" \in backups[b]["manifest.json"].files

\* a backup() returned and its manifest names the relational copy, the flat
\* JSON copy and the vector export
ManifestWrittenLastWitness ==
    /\ Finished("backup")
    /\ result.ret = "backup_id"
    /\ HasManifest(backups[backup_id])
    /\ backups[backup_id]["manifest.json"].files =
           {"short_term.db", "long_term.json", "qdrant_export.json"}

Ids(printed) == {printed[i] : i \in 1..Len(printed)}

\* C4: only backups with a manifest.json are presented. Every id printed by
\* list_backups(), and every id printed as available by a restore() that did
\* not find its backup, is a directory holding a manifest.json.
OnlyValidBackupsPresented ==
    Finished("list") \/ (Finished("restore") /\ result.ret = "False") =>
        \A b \in Ids(result.ids) :
            b \in BackupIds /\ HasManifest(backups[b])

TotalRows(db) ==
    IF Exists(db)
    THEN db.rows["memories"] + db.rows["session_memories"]
         + db.rows["entities"] + db.rows["relationships"]
    ELSE 0

Records(file) == {PointStruct(file.entries[i]) : i \in 1..Len(file.entries)}

\* C5: backup completeness. When backup() ends with a vector client at hand,
\* it has written a manifest whose sqlite_entries is the number of rows of the
\* four tables, whose qdrant_entries is the number of records of the
\* collection, and the vector export holds exactly those records.
BackupCompleteness ==
    Finished("backup") /\ result.ret # "killed" /\ result.vec # "unavailable" =>
        /\ HasManifest(backups[backup_id])
        /\ backups[backup_id]["manifest.json"].sqlite_entries =
               TotalRows(short_term_db)
        /\ backups[backup_id]["manifest.json"].qdrant_entries =
               Cardinality(collection.points)
        /\ Records(backups[backup_id]["qdrant_export.json"]) =
               collection.points

\* C6: round trip. After a restore() of a completed backup whose export held
\* the collection's records, run with the vector store at hand, the
\* collection holds exactly the records it held when the backup was made.
RoundTrip ==
    /\ Finished("restore")
    /\ result.ret = "True"
    /\ result.vec \in {"empty", "restored"}
    /\ HasManifest(backups[backup_id])
    /\ Records(backups[backup_id]["qdrant_export.json"]) =
           collAtBackup[backup_id]
    => collection.points = collAtBackup[backup_id]

\* C7: after a restore() from an empty vector export, run with the vector
\* store at hand, the collection exists and holds no record.
EmptyArtifactRecreates ==
    Finished("restore") /\ result.ret = "True" /\ result.vec = "empty" =>
        collection.exists /\ collection.points = {}

\* C8: a restore() from an empty vector export never returns the value that a
\* restore() returned when it had no vector store and skipped the vector step.
DistinctOutcomes ==
    Finished("restore") /\ result.vec = "empty" => result.ret # seen

\* C9: backup() and restore() never end by raising.
NoRawException ==
    Finished("backup") \/ Finished("restore") => result.ret # "raised"

\* the export of a collection without records, scrolled without failure
EmptyExport == ExportQdrant(TRUE, NewCollection(VectorSize), FALSE)

\* C10: a backup() whose scroll failed does not leave the manifest, the vector
\* export and the return value of a backup of a collection without records.
PartialBackupReported ==
    Finished("backup") /\ result.vec = "scroll_failed" =>
        ~ /\ result.ret = "backup_id"
          /\ backups[backup_id]["manifest.json"].qdrant_entries =
                 Len(EmptyExport)
          /\ backups[backup_id]["qdrant_export.json"] =
                 QdrantExportFile(EmptyExport)

\* the command met a vector store that was not at hand: no client or no
\* encoder in the process, or a store that did not answer a call
Degraded == result.vec \in {"unavailable", "unreachable", "scroll_failed"}

\* C11: degraded-mode safety. A backup(), restore(), long-term search or
\* long-term store that meets a vector store that is not at hand ends without
\* raising, and such a backup() writes an empty vector export.
DegradedModeSafety ==
    pc = "done" /\ Degraded /\ ~ExportSqliteRaises(short_term_db) =>
        /\ result.ret # "raised"
        /\ result.op = "backup" /\ result.ret = "backup_id" =>
               backups[backup_id]["qdrant_export.json"].entries = <<>>

\* the live file after restore(): the backup's file where the backup has one
Took(live, before, backupFile) ==
    live = IF Exists(backupFile) THEN backupFile ELSE before

\* what backup() and restore() have done to the files, in terms of the files
\* at the start of the command alone
FileEffect ==
    /\ FileStepsDone =>
          /\ Took(short_term_db, startDb, backups[backup_id]["short_term.db"])
          /\ Took(long_term_json, startJson,
                  backups[backup_id]["long_term.json"])
          /\ Replaced(short_term_db, db_pre_restore, startDb,
                      backups[backup_id]["short_term.db"])
          /\ Replaced(long_term_json, json_pre_restore, startJson,
                      backups[backup_id]["long_term.json"])
    /\ Finished("backup") =>
          /\ short_term_db = startDb
          /\ long_term_json = startJson
          /\ result.ret = "backup_id" =>
                backups[backup_id]["manifest.json"].sqlite_entries =
                    TotalRows(startDb)

\* a step writes a .pre_restore file only in a restore() whose live file and
\* backup file both exist
SiblingsKept ==
    /\ db_pre_restore' # db_pre_restore =>
          /\ result.op = "restore"
          /\ Exists(startDb)
          /\ Exists(backups[backup_id]["short_term.db"])
    /\ json_pre_restore' # json_pre_restore =>
          /\ result.op = "restore"
          /\ Exists(startJson)
          /\ Exists(backups[backup_id]["long_term.json"])

\* C12: store independence. Whatever the vector situation of the command
\* (no client, no encoder, a store that fails, a store that answers), what
\* backup() and restore() do to short_term.db, long_term.json, the two
\* .pre_restore files and the manifest's sqlite_entries is the same function
\* of the files at the start of the command.
StoreIndependence == [](FileEffect) /\ [][SiblingsKept]_vars

\* a restore() without a vector client has replaced both live files by the
\* files of a backup whose manifest counts relational rows
StoreIndependenceWitness ==
    /\ Finished("restore")
    /\ result.vec = "unavailable"
    /\ Exists(startDb)
    /\ Exists(startJson)
    /\ short_term_db # startDb
    /\ long_term_json # startJson
    /\ db_pre_restore = startDb
    /\ json_pre_restore = startJson
    /\ HasManifest(backups[backup_id])
    /\ backups[backup_id]["manifest.json"].sqlite_entries > 0

\* C13: idempotent upgrade. An upgrade_schema() that completes directly
\* after an upgrade_schema() that completed, whatever extension tables the
\* database held before the first, creates no table and no index: the
\* database is the one it found.
IdempotentUpgrade ==
    Finished("upgrade") /\ upgrades = 2 => short_term_db = startDb

\* a second upgrade_schema() has completed on a database where the first
\* found session_memories (it holds its row) and created entities and
\* relationships (they hold none)
IdempotentUpgradeWitness ==
    /\ Finished("upgrade")
    /\ upgrades = 2
    /\ Exists(short_term_db)
    /\ Range(ExtensionTables) \subseteq short_term_db.tables
    /\ short_term_db.rows["session_memories"] = 1
    /\ short_term_db.rows["entities"] = 0
    /\ short_term_db.rows["relationships"] = 0

\* C14: upgrade_schema() only adds. Without a database file it creates no
\* file.  With one, every table and index it found is still there with the
\* same rows, every new table is an extension table that was absent, and
\* every new index is an index of a new table.
AdditiveUpgrade ==
    Finished("upgrade") =>
        IF ~Exists(startDb) THEN ~Exists(short_term_db)
        ELSE /\ startDb.tables \subseteq short_term_db.tables
             /\ startDb.indexes \subseteq short_term_db.indexes
             /\ short_term_db.rows = startDb.rows
             /\ short_term_db.tables \ startDb.tables
                    \subseteq Range(ExtensionTables)
             /\ \A i \in short_term_db.indexes \ startDb.indexes :
                    \E t \in short_term_db.tables \ startDb.tables :
                        i \in Range(IndexesOf(t))

\* an upgrade_schema() has completed on a database that held memories and
\* entities with their rows, and has added the two other tables
AdditiveUpgradeWitness ==
    /\ Finished("upgrade")
    /\ result.ret = "None"
    /\ Exists(startDb)
    /\ startDb.tables = {"memories", "entities"}
    /\ startDb.rows["entities"] = 1
    /\ short_term_db.tables = TableNames
    /\ short_term_db.rows = startDb.rows

\* every statement of an upgrade of a database without extension tables
AllStatements == StatementsFor(ExtensionTables, {})

\* the extension tables whose CREATE TABLE comes before the named statement
TablesBefore(name) ==
    LET at == CHOOSE i \in 1..Len(AllStatements) : AllStatements[i].name = name
    IN  {AllStatements[i].name : i \in
            {j \in 1..(at - 1) : AllStatements[j].verb = "create_table"}}

\* the upgrade raised while it created a table or an index
CreationFailed ==
    /\ Finished("upgrade")
    /\ result.ret = "raised"
    /\ result.vec # "sqlite_master"

\* C15: a partial upgrade is kept. When the creation of a table or of an
\* index raises in upgrade_schema(), every extension table whose creation
\* came earlier in the call is in the database afterwards.
PartialUpgradeKept ==
    CreationFailed => TablesBefore(result.vec) \subseteq short_term_db.tables

\* the creation of relationships raised after the same call had created
\* session_memories and entities
PartialUpgradeKeptWitness ==
    /\ CreationFailed
    /\ result.vec = "relationships"
    /\ startDb.tables = {"memories"}
    /\ short_term_db.tables = {"memories", "session_memories", "entities"}

TableOrder == <<"memories">> \o ExtensionTables

SourceOrder == <<"sqlite_memories", "sqlite_session_memories",
                 "sqlite_entities", "sqlite_relationships">>

FromSource(entries, source) ==
    SelectSeq(entries, LAMBDA e : e.source = source)

SourceIndex(source) == CHOOSE k \in 1..Len(SourceOrder) : SourceOrder[k] = source

\* C17: the export tolerates absent optional tables. An export of a database
\* that holds memories does not raise; it writes the memories rows first, then
\* the rows of session_memories, entities and relationships, each table's rows
\* by ascending id, as many as the table holds and none for an absent table.
ExportTolerant ==
    Finished("export") /\ Exists(startDb) /\ "memories" \in startDb.tables =>
        /\ result.ret = "None"
        /\ \A k \in 1..Len(TableOrder) :
              LET rows == FromSource(result.ids, SourceOrder[k])
              IN  /\ Len(rows) = IF TableOrder[k] \in startDb.tables
                                 THEN startDb.rows[TableOrder[k]] ELSE 0
                  /\ \A i \in 1..Len(rows) : rows[i].id = i
        /\ \A i \in 1..Len(result.ids), j \in 1..Len(result.ids) :
              i < j => SourceIndex(result.ids[i].source)
                           <= SourceIndex(result.ids[j].source)
        /\ Len(result.ids) = TotalRows(startDb)

\* an export of a database with two memories rows and an entities row, and
\* without session_memories and relationships
ExportTolerantWitness ==
    /\ Finished("export")
    /\ Exists(startDb)
    /\ startDb.tables = {"memories", "entities"}
    /\ startDb.rows["memories"] = 2
    /\ Len(FromSource(result.ids, "sqlite_entities")) = 1
    /\ Len(result.ids) = 3

\* C18: every relational command has closed the connection it opened when it
\* returns or raises.
ConnectionReleased ==
    pc = "done" /\ result.op \in {"export", "add", "query", "upgrade"} =>
        conn = 0

\* C20: a backup directory is immutable. A step of any command leaves every
\* backup directory that holds a manifest.json as it is, file by file.
BackupUnitsImmutable ==
    [][\A b \in BackupIds :
           HasManifest(backups[b]) =>
               b \in DOMAIN backups' /\ backups'[b] = backups[b]]_vars

UniqueEntities(db) ==
    \A i \in 1..Len(db.entities), j \in 1..Len(db.entities) :
        /\ db.entities[i].type = db.entities[j].type
        /\ db.entities[i].name = db.entities[j].name
        => i = j

\* a step that inserts an entity whose (type, name) is in the table changes
\* no row and does not raise
InsertOfExistingIgnored ==
    /\ result'.op = "insert"
    /\ Exists(test_db)
    /\ Conflicts(test_db, result'.ids[1])
    => test_db' = test_db /\ result'.ret = "None"

\* C16: entity uniqueness. The entities table never holds two rows with the
\* same (type, name), and the insert of an entity whose (type, name) is in
\* the table changes no row and raises no error.
EntityUniqueness ==
    /\ [](Exists(test_db) => UniqueEntities(test_db))
    /\ [][InsertOfExistingIgnored]_vars

\* the table holds two rows and the last insert was that of the first row's
\* (type, name) again
EntityUniquenessWitness ==
    /\ result.op = "insert"
    /\ Exists(test_db)
    /\ Len(test_db.entities) = 2
    /\ result.ids[1] = test_db.entities[1]

\* a page that tells the loop to stop
LastPage(page) == page.records = <<>> \/ page.token = None

RECURSIVE RecordsOfPages(_, _)
RecordsOfPages(pages, n) ==
    IF n = 0 THEN <<>>
    ELSE RecordsOfPages(pages, n - 1) \o Served(pages, n).records

\* C19: the scroll loop pages until it is told to stop. The first request
\* carries no token and every later one the token of the page before it; no
\* page before the last one received was empty or without a token; the loop
\* has ended exactly when the last page received is empty or without a
\* token; the points are the records of all pages received, in page order.
ScrollPagesUntilToldToStop ==
    LET n == Len(scroll.requests)
    IN  /\ \A k \in 1..n :
              scroll.requests[k] =
                  IF k = 1 THEN None ELSE Served(scroll.pages, k - 1).token
        /\ \A k \in 1..(n - 1) : ~LastPage(Served(scroll.pages, k))
        /\ scroll.at = "done" <=> n > 0 /\ LastPage(Served(scroll.pages, n))
        /\ scroll.points = RecordsOfPages(scroll.pages, n)

\* the loop has ended at the third page, after a first page of one record
\* and a second page of two, each with a token
ScrollPagesUntilToldToStopWitness ==
    /\ scroll.at = "done"
    /\ Len(scroll.requests) = 3
    /\ Len(scroll.pages[1].records) = 1
    /\ scroll.pages[1].token # None
    /\ scroll.pages[2].token # scroll.pages[1].token
    /\ Len(scroll.points) >= 3

\* a backup() begins
BackupBegins == pc = "idle" /\ pc' = "b_sqlite"

\* C21: backup ids are in the order of time. The id a backup() takes is
\* lexicographically greater than the id of every backup made in an earlier
\* second, and list_backups() prints the backups that hold a manifest by
\* ascending id, which is the order in which their manifests were written.
BackupIdOrdering ==
    /\ [][BackupBegins =>
             \A b \in BackupIds : b # backup_id' => Lex(b, backup_id')]_vars
    /\ [](Finished("list") =>
             /\ Ids(result.ids) = {b \in BackupIds : HasManifest(backups[b])}
             /\ \A i \in 1..Len(result.ids), j \in 1..Len(result.ids) :
                   i < j =>
                      /\ Lex(result.ids[i], result.ids[j])
                      /\ backups[result.ids[i]]["manifest.json"].created_at
                           <= backups[result.ids[j]]["manifest.json"].created_at)

\* list_backups() has printed two backups, made in the seconds :59 and :00
\* of two successive minutes
BackupIdOrderingWitness ==
    /\ Finished("list")
    /\ Len(result.ids) = 2
    /\ result.ids[1][4] = 9
    /\ result.ids[2][4] = 0
    /\ backups[result.ids[1]]["manifest.json"].created_at
         < backups[result.ids[2]]["manifest.json"].created_at

\* this restore and the restore before it did their file steps
RestoredInARow ==
    /\ Finished("restore")
    /\ result.ret \in {"True", "raised"}
    /\ prev.op = "restore"
    /\ prev.ret \in {"True", "raised"}

\* C22: at most one safety copy is kept. short_term.db held A; a backup
\* holding B was restored and then, as the next command, a backup holding C.
\* Then the one .pre_restore file of short_term.db holds B, which was live
\* when the second restore began, the live file is C, and where A differs
\* from B and C it is in neither file.
OneSafetyCopy ==
    LET A == prev.start
        B == backups[prev.id]["short_term.db"]
        C == backups[backup_id]["short_term.db"]
    IN  RestoredInARow /\ Exists(A) /\ Exists(B) /\ Exists(C) =>
            /\ startDb = B
            /\ db_pre_restore = B
            /\ short_term_db = C
            /\ A \notin {B, C} => A \notin {db_pre_restore, short_term_db}

\* two restores in a row where A, B and C are three different contents
OneSafetyCopyWitness ==
    LET A == prev.start
        B == backups[prev.id]["short_term.db"]
        C == backups[backup_id]["short_term.db"]
    IN  /\ RestoredInARow
        /\ Exists(A) /\ Exists(B) /\ Exists(C)
        /\ A # B /\ B # C /\ A # C
        /\ db_pre_restore = B
        /\ short_term_db = C

\* the points of the vector artifact of the backup being restored
ArtifactPoints ==
    LET qdrant_data == backups[backup_id]["qdrant_export.json"].entries
    IN  {PointStruct(qdrant_data[i]) : i \in 1..Len(qdrant_data)}

\* C23: the collection restore() recreates is sized to the backup. Once
\* restore() has created the collection, its size is the length of the
\* first vector of the artifact, whatever that length is; and where no call
\* of the store raised and the old collection was deleted, restore() returns
\* True and the collection holds every record of the artifact.
CollectionSizedToBackup ==
    /\ result.op = "restore" /\ pc = "r_upsert" =>
           collection.size =
               backups[backup_id]["qdrant_export.json"].entries[1].vector.dim
    /\ Finished("restore") /\ result.vec \in {"restored", "upsert_failed"} =>
           /\ result.ret = "True"
           /\ collection.size =
                  backups[backup_id]["qdrant_export.json"].entries[1].vector.dim
           /\ collection.points = ArtifactPoints

\* the points the scroll loop collects from the collection
Scrolled == ScrollAll(Stored(collection), None, <<>>)

Defaulted(payload, field, value, default) ==
    value = (IF field \in DOMAIN payload THEN payload[field] ELSE default)

\* C24: format conversion is total. In each format, an export whose scroll
\* was answered writes exactly one entry per scrolled point, in scroll
\* order, whatever payload fields the points lack: entry i has the id of
\* point i, its tags are the point's or empty where the payload has none,
\* its importance is the point's or 5 where the payload has none, and the
\* native entry carries vector and payload as they are.
FormatConversionTotal ==
    \A format \in Formats :
        Finished(ExportOp(format)) /\ result.vec = "exported" =>
            /\ Len(result.ids) = Len(Scrolled)
            /\ \A i \in 1..Len(Scrolled) :
                  LET point == Scrolled[i]
                      entry == result.ids[i]
                  IN  /\ entry.id = point.id
                      /\ format = "native" =>
                            /\ entry.vector = point.vector
                            /\ entry.payload = point.payload
                      /\ format = "mem0" =>
                            /\ Defaulted(point.payload, "tags",
                                         entry.metadata.tags, <<>>)
                            /\ Defaulted(point.payload, "importance",
                                         entry.metadata.importance, 5)
                      /\ format = "amem" =>
                            /\ Defaulted(point.payload, "tags", entry.tags, <<>>)
                            /\ Defaulted(point.payload, "tags",
                                         entry.keywords, <<>>)
                            /\ Defaulted(point.payload, "importance",
                                         entry.importance, 5)

\* a linked-note export of two points, the first without tags and without
\* importance, the second with both
FormatConversionTotalWitness ==
    /\ Finished(ExportOp("amem"))
    /\ result.vec = "exported"
    /\ Len(Scrolled) = 2
    /\ Len(result.ids) = 2
    /\ DOMAIN Scrolled[1].payload \cap {"tags", "importance"} = {}
    /\ result.ids[1].tags = <<>>
    /\ result.ids[1].importance = 5
    /\ result.ids[2].tags = <<"t">>
    /\ result.ids[2].importance = 7

\* C25: restore is crash-safe for the pre-restore content. In every state
\* of a restore(), between any two of its file operations, after it was
\* stopped and after it raised or returned, the content short_term.db held
\* when restore() began is whole in the live file or in its .pre_restore
\* sibling.
CrashSafeRestore ==
    result.op = "restore" /\ Exists(startDb) =>
        short_term_db = startDb \/ db_pre_restore = startDb

\* a restore stopped after it overwrote the live file with other content
CrashSafeRestoreWitness ==
    /\ Finished("restore")
    /\ result.ret = "killed"
    /\ Exists(startDb)
    /\ short_term_db # startDb
    /\ short_term_db = backups[backup_id]["short_term.db"]
    /\ db_pre_restore = startDb

\* restore() has done its relational step
AfterRelationalStep ==
    /\ result.op = "restore"
    /\ \/ pc \in {"r_pre_json", "r_json", "r_qdrant", "r_delete", "r_create",
                   "r_upsert"}
       \/ pc = "done" /\ result.ret \in {"True", "raised"}

\* restore() has done its flat JSON step
AfterJsonStep ==
    /\ result.op = "restore"
    /\ \/ pc \in {"r_qdrant", "r_delete", "r_create", "r_upsert"}
       \/ pc = "done" /\ result.ret \in {"True", "raised"}

\* C26: restore is not transactional and never rolls back. It does the
\* relational step, then the flat JSON step, then the vector step: the flat
\* JSON files are as they were until the relational step is done, and the
\* collection is as it was until the flat JSON step is done.  Once the
\* relational step is done, short_term.db is the backup's file and its
\* .pre_restore sibling is the content of the start, and no later step of
\* the restore, a failing vector step and a stop of the process included,
\* changes either file.
RestoreNeverRollsBack ==
    /\ [](AfterRelationalStep =>
             Replaced(short_term_db, db_pre_restore, startDb,
                      backups[backup_id]["short_term.db"]))
    /\ [](AfterJsonStep =>
             Replaced(long_term_json, json_pre_restore, startJson,
                      backups[backup_id]["long_term.json"]))
    /\ [][/\ result.op = "restore" /\ pc \in {"r_pre_sqlite", "r_sqlite"} =>
                UNCHANGED <<long_term_json, json_pre_restore, collection>>
          /\ result.op = "restore" /\ pc \in {"r_pre_json", "r_json"} =>
                UNCHANGED <<short_term_db, db_pre_restore, collection>>
          /\ result.op = "restore"
                /\ pc \in {"r_qdrant", "r_delete", "r_create", "r_upsert"} =>
                UNCHANGED <<short_term_db, db_pre_restore, long_term_json,
                            json_pre_restore>>]_vars

\* the vector step failed after the collection was deleted, and the
\* relational store stays restored: the live file is the backup's and the
\* safety copy is the content of the start
RestoreNeverRollsBackWitness ==
    /\ Finished("restore")
    /\ result.ret = "raised"
    /\ ~collection.exists
    /\ Exists(startDb)
    /\ startDb # backups[backup_id]["short_term.db"]
    /\ short_term_db = backups[backup_id]["short_term.db"]
    /\ db_pre_restore = startDb

\* the schema one uninterrupted upgrade_schema() leaves
FullSchema(db) ==
    \A t \in Range(ExtensionTables) :
        /\ t \in db.tables
        /\ Range(IndexesOf(t)) \subseteq db.indexes

\* C27: upgrade converges after a failure. Every upgrade_schema() that runs
\* to completion on a database, also one that follows upgrades that raised
\* at a table creation or at an index creation, leaves the three extension
\* tables, each with all of its indexes.
UpgradeConverges ==
    Finished("upgrade") /\ result.ret = "None" /\ Exists(short_term_db) =>
        FullSchema(short_term_db)

\* restore() returned True directly after a restore() of the same backup
\* that returned True
RestoredTwice ==
    /\ Finished("restore")
    /\ result.ret = "True"
    /\ prev.op = "restore"
    /\ prev.ret = "True"
    /\ prev.id = backup_id

\* C28 as stated: restore is idempotent on the live stores. After the second
\* of two restores of the same backup in a row, short_term.db,
\* long_term.json and the collection are as the first restore left them.
RestoreIdempotentAnyStore ==
    RestoredTwice =>
        /\ short_term_db = prev.db
        /\ long_term_json = prev.json
        /\ collection = prev.coll

\* C28, amended: the two files are as the first restore left them; the
\* collection is as the first restore left it where both restores found
\* the vector store and the encoder in the same condition (both took the
\* vector step the same way). Only the .pre_restore files may differ.
RestoreIdempotent ==
    RestoredTwice =>
        /\ short_term_db = prev.db
        /\ long_term_json = prev.json
        /\ prev.vec = result.vec => collection = prev.coll

\* two restores of one backup that both restored its point into the
\* collection, the first one over content that differed from the backup's
RestoreIdempotentWitness ==
    /\ RestoredTwice
    /\ prev.vec = "restored"
    /\ result.vec = "restored"
    /\ collection.points = ArtifactPoints
    /\ ArtifactPoints # {}
    /\ Exists(prev.start)
    /\ prev.start # prev.db
    /\ short_term_db = prev.db
    /\ db_pre_restore = prev.db

\* C29: a failed append changes nothing. When add_short_term() raises,
\* short_term.db is as it was when the command began: no row is added, none
\* is changed and no file is created.  When it returns, the memories table
\* holds one row more, with the next id, and everything else in the
\* database is as it was.
FailedAppendChangesNothing ==
    Finished("add") =>
        IF result.ret = "raised" THEN short_term_db = startDb
        ELSE /\ Exists(startDb)
             /\ short_term_db = [startDb EXCEPT !.rows["memories"] = @ + 1]

\* the places in the table of the tasks at least two of whose keywords
\* occur in the lower-cased instruction
Reaching ==
    {i \in 1..Len(TaskOrder) :
        Matches(DetectionKeywords[TaskOrder[i]], Lower(hook.instruction)) >= 2}

\* C30: hook dispatch is first-match-wins with threshold 2. When
\* run_pre_execution_hooks has returned: if no task reaches two keywords, it
\* detected no task, executed no command and returned the empty string;
\* otherwise it detected the first task of the table that reaches two, it
\* executed every command of that task once, in table order, whichever of
\* them failed, and it returned the context text of that task.
HookDispatch ==
    hook.at = "returned" =>
        IF Reaching = {}
        THEN /\ hook.task_name = NoTask
             /\ hook.ran = <<>>
             /\ hook.ret = ""
        ELSE LET first == CHOOSE i \in Reaching : \A j \in Reaching : i <= j
                 task == TaskOrder[first]
             IN  /\ hook.task_name = task
                 /\ Len(hook.ran) = CommandCount[task]
                 /\ \A k \in 1..Len(hook.ran) :
                       hook.ran[k].cmd = Command(task, k)
                 /\ hook.ret = GetPostExecutionContext(task)
                 /\ hook.ret # ""

\* "Chess image Code" reaches two keywords of chess-best-move and two of
\* code-from-image; chess-best-move, the earlier one, was run: its first
\* command failed and its other three were executed after it
HookDispatchWitness ==
    /\ hook.at = "returned"
    /\ hook.instruction = <<"Chess", "image", "Code">>
    /\ Cardinality(Reaching) = 2
    /\ hook.task_name = "chess-best-move"
    /\ Len(hook.ran) = 4
    /\ hook.ran[1].failed
    /\ ~hook.ran[4].failed
    /\ hook.ret = "context of chess-best-move"

====
